---- MODULE Spec2Model ----
(***************************************************************************)
(* Model of the custom-metric provider: the /compute/custom_metric route   *)
(* (src/main.py), the OpenScale helpers (src/wos/common.py), the evaluator *)
(* entry point (src/wos/custom_evaluator.py) and run_in_thread             *)
(* (src/utils/async_threading.py).                                         *)
(***************************************************************************)
EXTENDS Integers, Sequences, FiniteSets, TLC

\* ------------------------------------------------------------------------
\* Bounds of the model and constants of the program
\* ------------------------------------------------------------------------
\* Number of requests to /compute/custom_metric that may be in flight.
NumInvocations == 3

\* limit=500 of the get_list_of_records call.
PageLimit == 500

\* Row counts of the payload batch in the route model: an empty batch and a
\* full page.
BatchSizes == {0, PageLimit}

Invocations == 1..NumInvocations

\* A local name that is not bound (reading it raises UnboundLocalError).
Unbound == "<unbound>"

\* ------------------------------------------------------------------------
\* State of the route and of the shared executor
\* ------------------------------------------------------------------------
VARIABLES
    pc,             \* where each invocation of compute_custom_metric stands
    payload_data,   \* per invocation: number of rows of the fetched DataFrame
    work_queue,     \* executor._work_queue: submitted jobs not yet started
    running,        \* per worker thread: the job it executes, or NoJob
    future,         \* per invocation: the Future of its run_in_executor call
    response,       \* per invocation: the HTTP response, or NoResponse
    exc,            \* per invocation: the handler's local name exc
    store_calls,    \* per invocation: the calls of store_metrics, in order
    sink,           \* what the metrics service persisted
    evaluate_calls, \* per invocation: calls of MetricsEvaluator.evaluate
    submitted,      \* history: jobs in the order they were submitted
    started         \* history: jobs in the order they started executing

routeVars == <<pc, payload_data, work_queue, running, future, response, exc,
               store_calls, sink, evaluate_calls, submitted, started>>

\* ------------------------------------------------------------------------
\* State of the helpers when they are exercised on their own
\* ------------------------------------------------------------------------
VARIABLES
    subscription,       \* the payload the subscription registry returns
    prompt_properties,  \* what extract_prompt_fields made of it
    runs_response,      \* what the run registry answers to list_runs
    dataset,            \* the payload store: its records, oldest first
    asset_properties,   \* the profile handed to get_payload_data
    payload_result,     \* what get_payload_data returned or raised
    result_dict,        \* the samples handed to _calc_mean
    mean_result,        \* what _calc_mean returned
    clock,              \* the current instant
    delivered,          \* per record: invocations that fetched it
    late                \* per record: fetches made after a later finished run

resolverVars == <<subscription, prompt_properties>>

payloadVars == <<runs_response, dataset, asset_properties, payload_result>>

meanVars == <<result_dict, mean_result>>

windowVars == <<clock, delivered, late>>

vars == <<routeVars, resolverVars, payloadVars, meanVars, windowVars>>

helperVars == <<resolverVars, payloadVars, meanVars, windowVars>>

\* ------------------------------------------------------------------------
\* Pure helpers
\* ------------------------------------------------------------------------
Range(s) == {s[k] : k \in DOMAIN s}

RECURSIVE SumSeq(_)
SumSeq(s) == IF s = <<>> THEN 0 ELSE Head(s) + SumSeq(Tail(s))

\* ------------------------------------------------------------------------
\* custom_evaluator._calc_mean
\* ------------------------------------------------------------------------
\* A sample is a record with the optional keys name and value. record.get
\* yields None for a key the sample lacks and for a key it maps to None: both
\* are a key outside the record's domain here.
IsNone(record, key) == key \notin DOMAIN record

\* A loop body that would test the value's truth instead of "is None", and
\* so skip a value of 0.
CalcMeanStepTruthy(acc, record) ==
    IF IsNone(record, "name") \/ IsNone(record, "value") THEN acc
    ELSE IF record.value = 0 THEN acc
    ELSE LET name == record.name
             s == IF name \in DOMAIN acc.sums THEN acc.sums[name] ELSE 0
             c == IF name \in DOMAIN acc.counts THEN acc.counts[name] ELSE 0
         IN [sums |-> [n \in DOMAIN acc.sums \cup {name} |->
                          IF n = name THEN s + record.value ELSE acc.sums[n]],
             counts |-> [n \in DOMAIN acc.counts \cup {name} |->
                          IF n = name THEN c + 1 ELSE acc.counts[n]]]

\* One iteration of the loop: acc = [sums, counts], two defaultdicts given as
\* functions over the names seen so far.
CalcMeanStep(acc, record) ==
    IF IsNone(record, "name") \/ IsNone(record, "value")
    THEN acc
    ELSE LET name == record.name
             value == record.value
             s == IF name \in DOMAIN acc.sums THEN acc.sums[name] ELSE 0
             c == IF name \in DOMAIN acc.counts THEN acc.counts[name] ELSE 0
         IN [sums |-> [n \in DOMAIN acc.sums \cup {name} |->
                          IF n = name THEN s + value ELSE acc.sums[n]],
             counts |-> [n \in DOMAIN acc.counts \cup {name} |->
                          IF n = name THEN c + 1 ELSE acc.counts[n]]]

RECURSIVE CalcMeanLoop(_, _)
CalcMeanLoop(acc, records) ==
    IF records = <<>> THEN acc
    ELSE CalcMeanLoop(CalcMeanStep(acc, Head(records)), Tail(records))

\* The quotient metric_sums[name] / metric_counts[name] is kept as the exact
\* fraction <<numerator, denominator>>.
Quotient(num, den) == <<num, den>>

_calc_mean(records) ==
    LET acc == CalcMeanLoop([sums |-> <<>>, counts |-> <<>>], records)
    IN [name \in {n \in DOMAIN acc.sums : acc.counts[n] > 0} |->
            Quotient(acc.sums[name], acc.counts[name])]

\* ------------------------------------------------------------------------
\* The shared executor: ThreadPoolExecutor(max_workers=1)
\* ------------------------------------------------------------------------
\* A pool sized for two threads.
TwoWorkers == 1 + 1

max_workers == 1

Workers == 1..max_workers

\* A worker that would take the newest item instead.
WorkQueuePopNewest(q) ==
    [item |-> q[Len(q)], rest |-> SubSeq(q, 1, Len(q) - 1)]

\* The worker takes the oldest item of the executor's work queue.
WorkQueueGet(q) == [item |-> Head(q), rest |-> Tail(q)]

\* ------------------------------------------------------------------------
\* Responses of the route
\* ------------------------------------------------------------------------
HTTPException(status_code, detail) ==
    [status_code |-> status_code, content |-> [detail |-> detail]]

JSONResponse(content, status_code) ==
    [status_code |-> status_code, content |-> content]

\* What the server answers when the handler itself raises.
ServerError(exception) ==
    [status_code |-> 500, content |-> [unhandled |-> exception]]

\* The trigger payload of invocation i.
Trigger(i) ==
    [custom_monitor_instance_id |-> 100 + (i % 2),
     custom_monitor_run_id |-> i]

\* Bodies a request may carry.
RequestBodies == {"invalid_json", "no_input_data", "valid"}

\* Failures of the prepare stage, by the message of the exception raised.
PrepareErrors == {"Invalid subscription payload structure",
                  "record lookup failed"}

\* What MetricsEvaluator.evaluate(...).to_dict() may yield in the route model.
EvaluateResults ==
    {<<>>,
     <<[name |-> "bias", value |-> 2], [name |-> "bias", value |-> 4]>>}

EvaluateError == "evaluation resource unreachable"

StoreError == "Failed to store metrics data"

\* ------------------------------------------------------------------------
\* custom_evaluator.run_evaluator
\* ------------------------------------------------------------------------
\* data.empty: the DataFrame has no rows (every row carries generated_text,
\* so a DataFrame with rows has a column).
DataFrameEmpty(nrows) == nrows = 0

\* A run_evaluator without the early return on an empty batch.
NoEmptyCheck(nrows, outcome) ==
    IF outcome = <<EvaluateError>>
    THEN [invoked |-> TRUE, exception |-> EvaluateError, result |-> <<>>]
    ELSE IF outcome = <<>>
         THEN [invoked |-> TRUE, exception |-> "", result |-> <<>>]
         ELSE [invoked |-> TRUE, exception |-> "",
               result |-> _calc_mean(outcome)]

\* outcome is what the evaluation resource does if it is invoked: a list of
\* samples, or EvaluateError when the invocation raises. The result names
\* whether evaluate was invoked, the exception raised ("" when none) and the
\* mapping returned.
run_evaluator(nrows, outcome) ==
    IF DataFrameEmpty(nrows)
    THEN [invoked |-> FALSE, exception |-> "", result |-> <<>>]
    ELSE IF outcome = <<EvaluateError>>
         THEN [invoked |-> TRUE, exception |-> EvaluateError, result |-> <<>>]
         ELSE IF outcome = <<>>
              THEN [invoked |-> TRUE, exception |-> "", result |-> <<>>]
              ELSE [invoked |-> TRUE, exception |-> "",
                    result |-> _calc_mean(outcome)]

\* ------------------------------------------------------------------------
\* Initial state
\* ------------------------------------------------------------------------
NoJob == <<>>

NoResponse == [status_code |-> 0, content |-> [none |-> TRUE]]

NoFuture == [state |-> "none", exception |-> "", result |-> <<>>]

RouteInit ==
    /\ pc = [i \in Invocations |-> "start"]
    /\ payload_data = [i \in Invocations |-> 0]
    /\ work_queue = <<>>
    /\ running = [w \in Workers |-> NoJob]
    /\ future = [i \in Invocations |-> NoFuture]
    /\ response = [i \in Invocations |-> NoResponse]
    /\ exc = [i \in Invocations |-> Unbound]
    /\ store_calls = [i \in Invocations |-> <<>>]
    /\ sink = {}
    /\ evaluate_calls = [i \in Invocations |-> 0]
    /\ submitted = <<>>
    /\ started = <<>>

\* ------------------------------------------------------------------------
\* compute_custom_metric, up to the await of run_in_executor (lines 67-116).
\* The handler runs on the event loop without yielding until that await.
\* ------------------------------------------------------------------------
Respond(i, r) ==
    /\ response' = [response EXCEPT ![i] = r]
    /\ pc' = [pc EXCEPT ![i] = "done"]

RejectRequest(i) ==
    /\ UNCHANGED helperVars
    /\ pc[i] = "start"
    /\ \E body \in RequestBodies \ {"valid"} :
          Respond(i, HTTPException(400,
              IF body = "invalid_json" THEN "Invalid JSON payload."
              ELSE "'input_data' field is required and must be a non-empty list."))
    /\ UNCHANGED <<exc, payload_data, work_queue, running, future, store_calls,
                   sink, evaluate_calls, submitted, started>>

PrepareFails(i) ==
    /\ UNCHANGED helperVars
    /\ pc[i] = "start"
    /\ \E e \in PrepareErrors :
          /\ exc' = [exc EXCEPT ![i] = e]
          /\ Respond(i, HTTPException(500, e))
    /\ UNCHANGED <<payload_data, work_queue, running, future, store_calls,
                   sink, evaluate_calls, submitted, started>>

\* The prepare stage succeeded: the job run_in_thread(run_evaluator, ...) is
\* submitted to the executor and the handler awaits its future.
Submit(i) ==
    /\ UNCHANGED helperVars
    /\ pc[i] = "start"
    /\ \E nrows \in BatchSizes :
          payload_data' = [payload_data EXCEPT ![i] = nrows]
    /\ work_queue' = Append(work_queue, i)
    /\ future' = [future EXCEPT ![i].state = "pending"]
    /\ submitted' = Append(submitted, i)
    /\ pc' = [pc EXCEPT ![i] = "awaiting"]
    /\ UNCHANGED <<running, response, exc, store_calls, sink, evaluate_calls,
                   started>>

\* ------------------------------------------------------------------------
\* The executor's worker threads
\* ------------------------------------------------------------------------
\* An idle worker takes a job from the queue and enters run_in_thread.
WorkerStart(w) ==
    /\ UNCHANGED helperVars
    /\ running[w] = NoJob
    /\ work_queue # <<>>
    /\ LET got == WorkQueueGet(work_queue)
       IN /\ running' = [running EXCEPT ![w] = <<got.item>>]
          /\ work_queue' = got.rest
          /\ started' = Append(started, got.item)
    /\ UNCHANGED <<pc, payload_data, future, response, exc, store_calls, sink,
                   evaluate_calls, submitted>>

\* run_evaluator returns or raises; the worker sets the future and is idle.
WorkerFinish(w) ==
    /\ UNCHANGED helperVars
    /\ running[w] # NoJob
    /\ LET i == running[w][1]
       IN \E outcome \in EvaluateResults \cup {<<EvaluateError>>} :
            LET r == run_evaluator(payload_data[i], outcome)
            IN /\ future' = [future EXCEPT ![i] =
                      [state |-> "done", exception |-> r.exception,
                       result |-> r.result]]
               /\ evaluate_calls' = [evaluate_calls EXCEPT ![i] =
                      IF r.invoked THEN @ + 1 ELSE @]
    /\ running' = [running EXCEPT ![w] = NoJob]
    /\ UNCHANGED <<pc, payload_data, work_queue, response, exc, store_calls,
                   sink, submitted, started>>

\* ------------------------------------------------------------------------
\* compute_custom_metric after the await (lines 117-132)
\* ------------------------------------------------------------------------
\* The except clause of the store stage binds the exception to ex and builds
\* its response from str(exc), exc being the name the two earlier except
\* clauses bind. Reading it while it is unbound raises UnboundLocalError out
\* of the handler.
StoreFailureResponse(ex, exc_local) ==
    IF exc_local = Unbound
    THEN ServerError("UnboundLocalError")
    ELSE JSONResponse([predictions |-> <<>>, errors |-> <<exc_local>>], 500)

SuccessResponse ==
    JSONResponse([predictions |-> <<[values |-> <<"success">>]>>], 200)

\* A handler that would go on to the store stage whatever the job did.
JobDone(i) == future[i].state = "done"

\* The await of line 110 returned custom_metrics instead of raising.
EvaluatorReturned(i) ==
    future[i].state = "done" /\ future[i].exception = ""

\* The awaited job raised: the evaluate stage's HTTPException.
EvaluateFails(i) ==
    /\ UNCHANGED helperVars
    /\ pc[i] = "awaiting"
    /\ future[i].state = "done"
    /\ future[i].exception # ""
    /\ exc' = [exc EXCEPT ![i] = future[i].exception]
    /\ Respond(i, HTTPException(500, future[i].exception))
    /\ UNCHANGED <<payload_data, work_queue, running, future, store_calls,
                   sink, evaluate_calls, submitted, started>>

StoreCall(i) ==
    [monitor_instance_id |-> Trigger(i).custom_monitor_instance_id,
     run_id |-> Trigger(i).custom_monitor_run_id,
     metrics |-> future[i].result]

\* The awaited job returned custom_metrics: store_metrics is called, and the
\* metrics service either persists the record or fails.
Store(i) ==
    /\ UNCHANGED helperVars
    /\ pc[i] = "awaiting"
    /\ EvaluatorReturned(i)
    /\ store_calls' = [store_calls EXCEPT ![i] = Append(@, StoreCall(i))]
    /\ \E persisted \in BOOLEAN :
          IF persisted
          THEN /\ sink' = sink \cup {StoreCall(i)}
               /\ Respond(i, SuccessResponse)
          ELSE /\ sink' = sink
               /\ Respond(i, StoreFailureResponse(StoreError, exc[i]))
    /\ UNCHANGED <<exc, payload_data, work_queue, running, future, evaluate_calls,
                   submitted, started>>

\* ------------------------------------------------------------------------
\* Python values where a slot holds None or a string
\* ------------------------------------------------------------------------
None == [type |-> "NoneType"]

Str(s) == [type |-> "str", value |-> s]

\* ------------------------------------------------------------------------
\* common.extract_prompt_fields
\* ------------------------------------------------------------------------
\* Longest feature_fields / context_fields list of a subscription.
MaxFieldList == 2

\* The field names of the model, in lexicographic order.
FieldNames == <<"context", "generated_text", "question">>

RAG == "retrieval_augmented_generation"

ProblemTypes == {RAG, "question_answering"}

RECURSIVE SeqsUpTo(_, _)
SeqsUpTo(S, n) ==
    IF n = 0 THEN {<<>>}
    ELSE LET shorter == SeqsUpTo(S, n - 1)
         IN shorter \cup {Append(q, x) : q \in shorter, x \in S}

FieldLists == SeqsUpTo(Range(FieldNames), MaxFieldList)

\* entity.asset_properties: each of the two lists may be missing.
AssetPropertiesSet ==
    {[feature_fields |-> f, context_fields |-> c] :
        f \in FieldLists, c \in FieldLists}
    \cup {[feature_fields |-> f] : f \in FieldLists}
    \cup {[context_fields |-> c] : c \in FieldLists}
    \cup {<<>>}

\* What subscriptions.get(...).result.to_dict() may be: the call raises, or
\* it yields a payload without "entity", or one whose entity has an asset (with or without problem_type)
\* and asset_properties.
SubscriptionPayloads ==
    {[metadata |-> <<>>], [raises |-> "subscription lookup failed"]}
    \cup {[entity |-> [asset |-> [problem_type |-> pt], asset_properties |-> ap]] :
            pt \in ProblemTypes, ap \in AssetPropertiesSet}
    \cup {[entity |-> [asset |-> <<>>, asset_properties |-> ap]] :
            ap \in AssetPropertiesSet}
    \cup {[entity |-> [asset |-> [problem_type |-> pt]]] : pt \in ProblemTypes}

\* d.get(key, default) of a dict given as a function.
GetOr(d, key, default) == IF key \in DOMAIN d THEN d[key] ELSE default

\* set(list)
set(list) == Range(list)

\* sorted(set of field names): the names of the set in lexicographic order.
sorted(S) == SelectSeq(FieldNames, LAMBDA f : f \in S)

\* A resolver that would leave feature_fields as listed.
KeepDuplicates(feature_fields, context_fields) == feature_fields

\* Line 66: fields listed in both sets are dropped from feature_fields.
RemoveDuplicates(feature_fields, context_fields) ==
    feature_fields \ context_fields

\* The returned profile, or [raised |-> message].
extract_prompt_fields(payload) ==
    IF "raises" \in DOMAIN payload
    THEN [raised |-> payload.raises]
    ELSE IF "entity" \notin DOMAIN payload
    THEN [raised |-> "Invalid subscription payload structure"]
    ELSE LET entity == payload.entity
             asset == GetOr(entity, "asset", <<>>)
             asset_props == GetOr(entity, "asset_properties", <<>>)
             problem_type == IF "problem_type" \in DOMAIN asset
                             THEN Str(asset.problem_type) ELSE None
             feature_fields == set(GetOr(asset_props, "feature_fields", <<>>))
         IN IF problem_type = Str(RAG)
            THEN LET context_fields ==
                         set(GetOr(asset_props, "context_fields", <<>>))
                     features == RemoveDuplicates(feature_fields, context_fields)
                     all_fields == features \cup context_fields
                 IN [problem_type |-> problem_type,
                     feature_fields |-> sorted(features),
                     context_fields |-> sorted(context_fields),
                     fields |-> sorted(all_fields)]
            ELSE [problem_type |-> problem_type,
                  feature_fields |-> sorted(feature_fields),
                  fields |-> sorted(feature_fields)]

NotCalled == [called |-> FALSE]

ResolverIdle ==
    /\ subscription = [metadata |-> <<>>]
    /\ prompt_properties = NotCalled

ResolverInit ==
    /\ subscription \in SubscriptionPayloads
    /\ prompt_properties = NotCalled

Resolve ==
    /\ prompt_properties = NotCalled
    /\ prompt_properties' = extract_prompt_fields(subscription)
    /\ UNCHANGED <<subscription, routeVars, payloadVars, meanVars, windowVars>>


\* ------------------------------------------------------------------------
\* common.get_last_run_date
\* ------------------------------------------------------------------------
\* Most runs a run registry response lists.
MaxRuns == 2

\* Latest instant of a created_at in a drawn registry response.
MaxInstant == 2

\* An ISO-8601 timestamp string, by the instant n >= 1 it names: timestamps
\* compare as their instants do.
Timestamp(n) == [type |-> "str", iso |-> n]

EmptyStr == Str("")

\* bool(v) of a None-or-string value.
Truthy(v) == v # None /\ v # EmptyStr

RunEntry(state, created_at) ==
    [entity |-> [status |-> [state |-> state]],
     metadata |-> [created_at |-> created_at]]

\* The entries of runs_dict["runs"]: well-formed runs, and the malformed ones
\* (an entry that is null, a null or missing entity, a null or missing
\* metadata, a metadata without created_at).
RunEntries ==
    {RunEntry(st, Timestamp(t)) : st \in {"finished", "running"},
                                  t \in 1..MaxInstant}
    \cup {None,
          [entity |-> None, metadata |-> [created_at |-> Timestamp(1)]],
          [metadata |-> [created_at |-> Timestamp(1)]],
          [entity |-> [status |-> [state |-> "finished"]]],
          [entity |-> [status |-> [state |-> "finished"]], metadata |-> None],
          [entity |-> [status |-> [state |-> "finished"]], metadata |-> <<>>]}

\* What list_runs(...).result.to_dict() may be: the call raises, the dict has
\* no "runs" key, or "runs" is a list of entries.
RunsResponses ==
    {[raises |-> "ApiException"], [limit |-> 1]}
    \cup {[runs |-> rs] : rs \in SeqsUpTo(RunEntries, MaxRuns)}

\* r.get("entity", {}).get("status", {}).get("state") raises AttributeError
\* when r, the entity or the status is None.
StateRaises(r) ==
    \/ r = None
    \/ GetOr(r, "entity", <<>>) = None
    \/ GetOr(GetOr(r, "entity", <<>>), "status", <<>>) = None

IsFinished(r) ==
    LET status == GetOr(GetOr(r, "entity", <<>>), "status", <<>>)
    IN "state" \in DOMAIN status /\ status.state = "finished"

\* A lookup that would take the last finished run of the list.
LastFinished(finished_runs) == finished_runs[Len(finished_runs)]

\* Line 106: the first finished run in the registry's order.
FirstFinished(finished_runs) == finished_runs[1]

\* The exceptions the except clause of get_last_run_date absorbs.
CaughtByLastRunDate == {"IndexError", "AttributeError"}

\* The try block: [raised |-> exception] or [value |-> returned].
LastRunDateBody(runs_dict) ==
    IF "raises" \in DOMAIN runs_dict THEN [raised |-> runs_dict.raises]
    ELSE IF "runs" \notin DOMAIN runs_dict THEN [raised |-> "KeyError"]
    ELSE IF \E k \in DOMAIN runs_dict.runs : StateRaises(runs_dict.runs[k])
    THEN [raised |-> "AttributeError"]
    ELSE LET finished_runs == SelectSeq(runs_dict.runs, IsFinished)
         IN IF finished_runs = <<>> THEN [value |-> EmptyStr]
            ELSE LET metadata == GetOr(FirstFinished(finished_runs),
                                       "metadata", <<>>)
                 IN IF metadata = None THEN [raised |-> "AttributeError"]
                    ELSE [value |-> GetOr(metadata, "created_at", EmptyStr)]

get_last_run_date(runs_dict) ==
    LET body == LastRunDateBody(runs_dict)
    IN IF "raised" \in DOMAIN body /\ body.raised \in CaughtByLastRunDate
       THEN [value |-> EmptyStr]
       ELSE body

\* ------------------------------------------------------------------------
\* common.get_payload_data
\* ------------------------------------------------------------------------
Min(a, b) == IF a < b THEN a ELSE b

\* The payload store holds records oldest first; created_at[k] is the instant
\* record k was created and shapes, repeated cyclically, says what record k
\* looks like. get_list_of_records(start, limit) answers with the records
\* created at or after start (all of them when start is None), at most limit
\* of them; the model names them by their indices.
get_list_of_records(ds, start, limit) ==
    LET matching == SelectSeq([k \in 1..Len(ds.created_at) |-> k],
                       LAMBDA k : start = None \/ ds.created_at[k] >= start.iso)
    IN SubSeq(matching, 1, Min(limit, Len(matching)))

RecordAt(ds, k) == ds.shapes[((k - 1) % Len(ds.shapes)) + 1]

\* A row without line 140: only the fields of the profile the record has.
ProjectRow(values, fields) ==
    [field \in {f \in Range(fields) : f \in DOMAIN values} |-> values[field]]

\* Lines 134-140: the fields of the profile the record has, and generated_text.
BuildRow(values, fields) ==
    [field \in {f \in Range(fields) : f \in DOMAIN values}
                 \cup {"generated_text"} |->
        IF field = "generated_text"
        THEN GetOr(values, "generated_text", None)
        ELSE values[field]]

\* [raised |-> exception, at |-> call] or [start, records, rows]: the start
\* passed to the store, the indices of the records it answered with, and the
\* rows of the DataFrame.
get_payload_data(runs_dict, ds, properties) ==
    LET last == get_last_run_date(runs_dict)
    IN IF "raised" \in DOMAIN last
       THEN [raised |-> last.raised, at |-> "get_last_run_date"]
       ELSE LET start_date == IF Truthy(last.value) THEN last.value ELSE None
            IN IF "raises" \in DOMAIN ds
               THEN [raised |-> ds.raises, at |-> "get_list_of_records"]
               ELSE LET data == get_list_of_records(ds, start_date, PageLimit)
                    IN IF \E j \in DOMAIN data :
                              GetOr(RecordAt(ds, data[j]), "entity", <<>>) = None
                       THEN [raised |-> "AttributeError", at |-> "rows"]
                       ELSE [start |-> start_date,
                             records |-> data,
                             rows |-> [j \in DOMAIN data |->
                                 BuildRow(
                                   GetOr(GetOr(RecordAt(ds, data[j]),
                                               "entity", <<>>),
                                         "values", <<>>),
                                   properties.fields)]]

\* Records of the payload store, by what entity.values holds.
RecordShapes ==
    {[entity |-> [values |-> [question |-> Str("q"),
                              generated_text |-> Str("g")]]],
     [entity |-> [values |-> [question |-> Str("q"), context |-> Str("c")]]],
     [entity |-> [values |-> [context |-> Str("c"), generated_text |-> None]]],
     [entity |-> [values |-> <<>>]],
     [entity |-> <<>>],
     [metadata |-> <<>>]}

MalformedRecord == [entity |-> None]

\* A store of n records, record k created at instant k.
PayloadStore(n, shapes) == [created_at |-> [k \in 1..n |-> k], shapes |-> shapes]

Profiles == {[fields |-> sorted(S)] : S \in SUBSET Range(FieldNames)}

PayloadIdle ==
    /\ runs_response = [runs |-> <<>>]
    /\ dataset = PayloadStore(0, <<[metadata |-> <<>>]>>)
    /\ asset_properties = [fields |-> <<>>]
    /\ payload_result = NotCalled

\* The registry responses, over a small store.
WatermarkInit ==
    /\ runs_response \in RunsResponses
    /\ dataset \in {PayloadStore(n, <<[entity |-> [values |-> <<>>]]>>) :
                        n \in 0..MaxInstant}
    /\ asset_properties = [fields |-> <<>>]
    /\ payload_result = NotCalled

\* Records beyond the page limit in the largest drawn store.
MaxOver == 2

\* Records in the small drawn stores.
MaxSmall == 2

DatasetSizes == 0..MaxSmall \cup (PageLimit - 1)..(PageLimit + MaxOver)

ShapePatterns ==
    {<<sh>> : sh \in RecordShapes}
    \cup {<<sh, MalformedRecord>> : sh \in RecordShapes}
    \cup {<<[entity |-> [values |-> [question |-> Str("q"),
                                      generated_text |-> Str("g")]]],
            [metadata |-> <<>>],
            [entity |-> [values |-> [context |-> Str("c"),
                                     generated_text |-> None]]]>>}

\* The stores and the profiles, over a registry with no run or one finished
\* run.
FetchInit ==
    /\ runs_response \in
          {[runs |-> <<>>]}
          \cup {[runs |-> <<RunEntry("finished", Timestamp(t))>>] :
                  t \in 1..MaxInstant}
    /\ dataset \in {PayloadStore(n, shapes) : n \in DatasetSizes,
                                        shapes \in ShapePatterns}
                    \cup {[raises |-> "ApiException"]}
    /\ asset_properties \in Profiles
    /\ payload_result = NotCalled

GetPayloadData ==
    /\ payload_result = NotCalled
    /\ payload_result' =
          get_payload_data(runs_response, dataset, asset_properties)
    /\ UNCHANGED <<runs_response, dataset, asset_properties>>
    /\ UNCHANGED <<routeVars, resolverVars, meanVars, windowVars>>

\* ------------------------------------------------------------------------
\* _calc_mean over lists of samples
\* ------------------------------------------------------------------------
\* Longest list of samples.
MaxSamples == 3

MetricNames == {"bias", "relevance"}

SampleValues == {0, 3}

\* Samples with and without a name, with and without a value.
Samples ==
    {[name |-> n, value |-> v] : n \in MetricNames, v \in SampleValues}
    \cup {[name |-> n] : n \in MetricNames}
    \cup {[value |-> v] : v \in SampleValues}
    \cup {<<>>}

MeanIdle ==
    /\ result_dict = <<>>
    /\ mean_result = NotCalled

MeanInit ==
    /\ result_dict \in SeqsUpTo(Samples, MaxSamples)
    /\ mean_result = NotCalled

CalcMean ==
    /\ mean_result = NotCalled
    /\ mean_result' = [mapping |-> _calc_mean(result_dict)]
    /\ UNCHANGED <<result_dict, routeVars, resolverVars, payloadVars,
                   windowVars>>

\* ------------------------------------------------------------------------
\* Successive runs of one monitor instance
\* ------------------------------------------------------------------------
\* Runs of the monitor instance.
MaxWindowRuns == 4

\* Records ingested into the payload store.
MaxRecords == 2

\* Instants the clock may reach by itself.
MaxClock == 3

WindowIdle ==
    /\ clock = 0
    /\ delivered = <<>>
    /\ late = <<>>

\* No run yet and an empty store. runs_response lists the runs most recent
\* first; the most recent one is the run being served.
WindowInit ==
    /\ clock = 1
    /\ delivered = <<>>
    /\ late = <<>>
    /\ runs_response = [runs |-> <<>>]
    /\ dataset = PayloadStore(0, <<[entity |-> [values |-> <<>>]]>>)
    /\ asset_properties = [fields |-> <<>>]
    /\ payload_result = NotCalled

Tick ==
    /\ clock < MaxClock
    /\ clock' = clock + 1
    /\ UNCHANGED <<delivered, late, payloadVars>>
    /\ UNCHANGED <<routeVars, resolverVars, meanVars>>

\* The monitored deployment logs a record.
Ingest ==
    /\ Len(dataset.created_at) < MaxRecords
    /\ dataset' = [dataset EXCEPT !.created_at = Append(@, clock)]
    /\ delivered' = Append(delivered, 0)
    /\ late' = Append(late, 0)
    /\ UNCHANGED <<clock, runs_response, asset_properties, payload_result>>
    /\ UNCHANGED <<routeVars, resolverVars, meanVars>>

RunState(r) == r.entity.status.state

\* The monitor starts its next run once the previous one has finished.
TriggerRun ==
    /\ Len(runs_response.runs) < MaxWindowRuns
    /\ runs_response.runs # <<>> =>
           RunState(runs_response.runs[1]) = "finished"
    /\ runs_response' =
          [runs |-> <<RunEntry("running", Timestamp(clock))>>
                    \o runs_response.runs]
    /\ payload_result' = NotCalled
    /\ UNCHANGED <<clock, delivered, late, dataset, asset_properties>>
    /\ UNCHANGED <<routeVars, resolverVars, meanVars>>

LaterFinishedRun(k) ==
    \E j \in DOMAIN runs_response.runs :
        /\ RunState(runs_response.runs[j]) = "finished"
        /\ runs_response.runs[j].metadata.created_at.iso > dataset.created_at[k]

\* The route serves the run: get_payload_data fetches the batch that goes to
\* the evaluator.
Invoke ==
    /\ runs_response.runs # <<>>
    /\ RunState(runs_response.runs[1]) = "running"
    /\ payload_result = NotCalled
    /\ LET r == get_payload_data(runs_response, dataset, asset_properties)
       IN /\ payload_result' = r
          /\ delivered' = [k \in DOMAIN delivered |->
                IF k \in Range(r.records) THEN delivered[k] + 1
                ELSE delivered[k]]
          /\ late' = [k \in DOMAIN late |->
                IF k \in Range(r.records) /\ LaterFinishedRun(k)
                THEN late[k] + 1 ELSE late[k]]
    /\ UNCHANGED <<clock, runs_response, dataset, asset_properties>>
    /\ UNCHANGED <<routeVars, resolverVars, meanVars>>

\* The evaluation and the storing of the metrics take time; then the run is
\* finished.
FinishRun ==
    /\ runs_response.runs # <<>>
    /\ RunState(runs_response.runs[1]) = "running"
    /\ payload_result # NotCalled
    /\ runs_response' = [runs |->
          <<RunEntry("finished", runs_response.runs[1].metadata.created_at)>>
          \o Tail(runs_response.runs)]
    /\ clock' = clock + 1
    /\ UNCHANGED <<delivered, late, dataset, asset_properties, payload_result>>
    /\ UNCHANGED <<routeVars, resolverVars, meanVars>>

\* ------------------------------------------------------------------------
\* Specifications
\* ------------------------------------------------------------------------
\* The route and the executor.
Init == RouteInit /\ ResolverIdle /\ PayloadIdle /\ MeanIdle /\ WindowIdle

Next ==
    \/ \E i \in Invocations :
          \/ RejectRequest(i)
          \/ PrepareFails(i)
          \/ Submit(i)
          \/ EvaluateFails(i)
          \/ Store(i)
    \/ \E w \in Workers :
          \/ WorkerStart(w)
          \/ WorkerFinish(w)

Spec == Init /\ [][Next]_vars

\* extract_prompt_fields over the subscription payloads.
InitResolver ==
    RouteInit /\ ResolverInit /\ PayloadIdle /\ MeanIdle /\ WindowIdle

SpecResolver == InitResolver /\ [][Resolve]_vars

\* get_payload_data over the run registry's responses.
InitWatermark ==
    RouteInit /\ ResolverIdle /\ WatermarkInit /\ MeanIdle /\ WindowIdle

SpecWatermark == InitWatermark /\ [][GetPayloadData]_vars

\* get_payload_data over the payload store's contents.
InitFetch ==
    RouteInit /\ ResolverIdle /\ FetchInit /\ MeanIdle /\ WindowIdle

SpecFetch == InitFetch /\ [][GetPayloadData]_vars

\* _calc_mean over the lists of samples.
InitMean ==
    RouteInit /\ ResolverIdle /\ PayloadIdle /\ MeanInit /\ WindowIdle

SpecMean == InitMean /\ [][CalcMean]_vars

\* Successive runs of one monitor instance.
InitWindow == RouteInit /\ ResolverIdle /\ MeanIdle /\ WindowInit

NextWindow == Tick \/ Ingest \/ TriggerRun \/ Invoke \/ FinishRun

SpecWindow == InitWindow /\ [][NextWindow]_vars

\* ------------------------------------------------------------------------
\* Properties of the route and the executor (Spec)
\* ------------------------------------------------------------------------
\* Jobs that a worker has started and that have not completed.
Executing ==
    {i \in Invocations : i \in Range(started) /\ future[i].state # "done"}

\* C1: whatever the number of invocations in flight, at most one
\* run_evaluator job is executing at any instant.
C1_MutualExclusion == Cardinality(Executing) <= 1

\* A job executes while other invocations have their jobs queued.
C1_Witness == Cardinality(Executing) = 1 /\ Len(work_queue) >= 2

FailedBeforeStore(i) ==
    /\ pc[i] = "done"
    /\ future[i].state = "none" \/ future[i].exception # ""

\* C2: store_metrics is called at most once per invocation and only after
\* run_evaluator returned for that invocation; when the request is rejected or
\* the prepare or evaluate stage fails, the invocation ends with an error
\* response, store_metrics is not called and nothing is persisted for its run.
C2_StoreOnlyAfterEvaluation ==
    \A i \in Invocations :
        /\ Len(store_calls[i]) <= 1
        /\ store_calls[i] # <<>> =>
               future[i].state = "done" /\ future[i].exception = ""
        /\ FailedBeforeStore(i) =>
               /\ response[i].status_code >= 400
               /\ store_calls[i] = <<>>
               /\ \A c \in sink : c.run_id # Trigger(i).custom_monitor_run_id

\* One invocation stored its metrics, one failed in the evaluate stage and
\* one failed in the prepare stage.
C2_Witness ==
    \E i, j, k \in Invocations :
        /\ pc[i] = "done" /\ Len(store_calls[i]) = 1
        /\ pc[j] = "done" /\ future[j].exception = EvaluateError
        /\ pc[k] = "done" /\ exc[k] \in PrepareErrors

StoreFailed(i) ==
    pc[i] = "done" /\ store_calls[i] # <<>> /\ store_calls[i][1] \notin sink

\* C3: when store_metrics fails after run_evaluator succeeded, the response
\* has status 500, empty predictions and the store stage's cause as its error
\* description.
C3_StoreFailureReported ==
    \A i \in Invocations :
        StoreFailed(i) =>
            response[i] =
                JSONResponse([predictions |-> <<>>, errors |-> <<StoreError>>],
                             500)

EmptyBatchDone(i) ==
    pc[i] = "done" /\ i \in Range(submitted) /\ payload_data[i] = 0

EmptyStoreCall(i) ==
    [monitor_instance_id |-> Trigger(i).custom_monitor_instance_id,
     run_id |-> Trigger(i).custom_monitor_run_id,
     metrics |-> <<>>]

\* C7 as stated: with zero records, run_evaluator returns an empty mapping
\* without invoking the evaluation resource, store_metrics receives that
\* mapping under the trigger's ids, and the invocation responds with success.
C7_EmptyBatchSucceeds ==
    \A i \in Invocations :
        EmptyBatchDone(i) =>
            /\ evaluate_calls[i] = 0
            /\ future[i].exception = "" /\ future[i].result = <<>>
            /\ store_calls[i] = <<EmptyStoreCall(i)>>
            /\ response[i] = SuccessResponse

\* C7 as amended: with zero records, run_evaluator returns an empty mapping
\* without invoking the evaluation resource and store_metrics receives that
\* mapping under the trigger's ids; the invocation responds with success
\* when store_metrics does not raise, and with status 500 when it does.
C7_EmptyBatchStored ==
    \A i \in Invocations :
        EmptyBatchDone(i) =>
            /\ evaluate_calls[i] = 0
            /\ future[i].exception = "" /\ future[i].result = <<>>
            /\ store_calls[i] = <<EmptyStoreCall(i)>>
            /\ IF EmptyStoreCall(i) \in sink
               THEN response[i] = SuccessResponse
               ELSE response[i].status_code = 500

\* An invocation with an empty batch answered with success.
C7_Witness ==
    \E i \in Invocations :
        /\ EmptyBatchDone(i)
        /\ EmptyStoreCall(i) \in sink
        /\ response[i] = SuccessResponse

\* C10: jobs start executing in the order in which they were submitted, and
\* an invocation reaches store_metrics only once its own job has completed.
C10_FifoAndAwait ==
    /\ Len(started) <= Len(submitted)
    /\ \A k \in DOMAIN started : started[k] = submitted[k]
    /\ \A i \in Invocations :
          store_calls[i] # <<>> =>
              /\ i \in Range(started)
              /\ future[i].state = "done"
              /\ \A w \in Workers : running[w] # <<i>>

\* Jobs that had queued behind a running job have started, and an invocation
\* has stored its metrics.
C10_Witness ==
    /\ Len(started) >= 3
    /\ \E i \in Invocations : store_calls[i] # <<>>

\* ------------------------------------------------------------------------
\* Properties of extract_prompt_fields (SpecResolver)
\* ------------------------------------------------------------------------
UpstreamList(key) ==
    IF "entity" \in DOMAIN subscription
       /\ "asset_properties" \in DOMAIN subscription.entity
       /\ key \in DOMAIN subscription.entity.asset_properties
    THEN Range(subscription.entity.asset_properties[key])
    ELSE {}

\* C6: the returned profile has, for retrieval_augmented_generation, disjoint
\* feature_fields and context_fields (a field listed in both upstream is kept
\* in context_fields only) and fields equal to their union; for any other
\* problem type it has no context_fields and fields equal to feature_fields.
C6_ProfileShape ==
    "fields" \in DOMAIN prompt_properties =>
        LET p == prompt_properties
        IN IF p.problem_type = Str(RAG)
           THEN /\ Range(p.feature_fields) \cap Range(p.context_fields) = {}
                /\ Range(p.fields) =
                       Range(p.feature_fields) \cup Range(p.context_fields)
                /\ Range(p.context_fields) = UpstreamList("context_fields")
                /\ Range(p.feature_fields) =
                       UpstreamList("feature_fields")
                       \ UpstreamList("context_fields")
           ELSE /\ "context_fields" \notin DOMAIN p
                /\ p.fields = p.feature_fields

\* A retrieval_augmented_generation profile resolved from a subscription
\* that lists a field in both lists.
C6_Witness ==
    /\ "fields" \in DOMAIN prompt_properties
    /\ prompt_properties.problem_type = Str(RAG)
    /\ UpstreamList("feature_fields") \cap UpstreamList("context_fields") # {}

\* ------------------------------------------------------------------------
\* Properties of get_last_run_date and get_payload_data
\* ------------------------------------------------------------------------
HasFinishedRun(runs_dict) ==
    /\ "runs" \in DOMAIN runs_dict
    /\ \E k \in DOMAIN runs_dict.runs :
          /\ ~StateRaises(runs_dict.runs[k])
          /\ IsFinished(runs_dict.runs[k])

\* C4 (SpecWatermark): the watermark lookup never fails get_payload_data:
\* whatever the registry answers, no exception leaves get_last_run_date, and
\* with no finished run in the answer the store is asked with start = None.
C4_WatermarkNeverFails ==
    payload_result # NotCalled =>
        /\ "start" \in DOMAIN payload_result
        /\ ~HasFinishedRun(runs_response) => payload_result.start = None

UpstreamValues(j) ==
    GetOr(GetOr(RecordAt(dataset, payload_result.records[j]), "entity", <<>>),
          "values", <<>>)

\* C5 (SpecFetch): the batch get_payload_data returns has at most 500 rows,
\* and every row has the key generated_text, with the value None when the
\* upstream record has none.
C5_BatchShape ==
    "rows" \in DOMAIN payload_result =>
        /\ Len(payload_result.rows) <= 500
        /\ \A j \in DOMAIN payload_result.rows :
              /\ "generated_text" \in DOMAIN payload_result.rows[j]
              /\ "generated_text" \notin DOMAIN UpstreamValues(j) =>
                     payload_result.rows[j]["generated_text"] = None

\* A full page fetched from a store holding more, with a record that has no
\* generated_text.
C5_Witness ==
    /\ "rows" \in DOMAIN payload_result
    /\ Len(payload_result.rows) = 500
    /\ Len(dataset.created_at) > 500
    /\ \E j \in DOMAIN payload_result.rows :
          "generated_text" \notin DOMAIN UpstreamValues(j)

\* ------------------------------------------------------------------------
\* Properties of _calc_mean (SpecMean)
\* ------------------------------------------------------------------------
\* The samples of result_dict that have a value and the name n.
ValidSamples(n) ==
    SelectSeq(result_dict,
              LAMBDA r : "name" \in DOMAIN r /\ "value" \in DOMAIN r
                         /\ r.name = n)

\* C8: the keys of the mapping are the names with at least one sample that has
\* a name and a value, and the value of a name is the sum of those samples'
\* values over their count.
C8_MeanOfValidSamples ==
    mean_result # NotCalled =>
        LET m == mean_result.mapping
        IN /\ DOMAIN m = {n \in MetricNames : ValidSamples(n) # <<>>}
           /\ \A n \in DOMAIN m :
                 m[n] = <<SumSeq([k \in DOMAIN ValidSamples(n) |->
                                     ValidSamples(n)[k].value]),
                          Len(ValidSamples(n))>>

\* A mean over two samples of one name, one of them of value 0, next to a
\* sample without a value.
C8_Witness ==
    /\ mean_result # NotCalled
    /\ \E n \in MetricNames :
          /\ Len(ValidSamples(n)) >= 2
          /\ \E k \in DOMAIN ValidSamples(n) : ValidSamples(n)[k].value = 0
    /\ \E k \in DOMAIN result_dict : "value" \notin DOMAIN result_dict[k]

====
